---- MODULE Spec2Model ----
(***************************************************************************)
(* Model of scripts/debug_modal.py: a script that resolves a deployed      *)
(* remote function by name, invokes it once with a literal argument and    *)
(* reports the outcome on standard output and in the exit status.          *)
(*                                                                         *)
(* The program counter pc names the source line about to execute.  The     *)
(* platform client (modal) is the environment: a lookup or a remote call   *)
(* that has been issued is answered by a separate step that either returns *)
(* or raises.  Failures are raised as subclasses of Exception, as the      *)
(* client library and a re-raised remote-side error are; asynchronous      *)
(* interrupts of the interpreter are outside the model, and writing to     *)
(* standard output and converting a value to text are taken to succeed.    *)
(*                                                                         *)
(* Optional values (None or a value) are sequences of length 0 or 1.       *)
(* A line of output is a sequence of text fragments: a literal of the      *)
(* source is one fragment, converted text is one fragment per character.   *)
(***************************************************************************)
EXTENDS Integers, Sequences, FiniteSets

VARIABLES pc, app, f, result, raised, e, stdout, exitCode,
          lookupLog, lookupOutcome, remoteLog, remoteOutcome

vars == <<pc, app, f, result, raised, e, stdout, exitCode,
          lookupLog, lookupOutcome, remoteLog, remoteOutcome>>

(* ---------------- bounds of the environment's answers ------------------ *)

\* longest message carried by a raised exception
MaxDescLen == 2
\* largest integer a remote call returns
MaxResult == 10

(* ---------------- literals of the source ------------------------------- *)

AppName == "legal-search-api"
FunctionName == "generate_sparse_embedding_internal"
TestQuery == "test query"
InvokingLine == <<"Invoking generate_sparse_embedding_internal remotely...">>
SuccessLine == <<"Success!">>
ErrorPrefix == "Error: "

(* ---------------- values and their text -------------------------------- *)

Alphabet == {"x", "y"}

RECURSIVE StringsOfLen(_)
StringsOfLen(n) ==
    IF n = 0 THEN {<<>>}
    ELSE {Append(s, c) : s \in StringsOfLen(n - 1), c \in Alphabet}

\* the messages an exception is constructed with
Messages == UNION {StringsOfLen(n) : n \in 1..MaxDescLen}

\* what a remote call can return: None or an integer
NoneValue == [type |-> "NoneType", v |-> 0]
Values == {NoneValue} \cup {[type |-> "int", v |-> n] : n \in 0..MaxResult}

DigitChar(d) == <<"0", "1", "2", "3", "4", "5", "6", "7", "8", "9">>[d + 1]

RECURSIVE Digits(_)
Digits(n) == IF n < 10 THEN <<DigitChar(n)>>
             ELSE Append(Digits(n \div 10), DigitChar(n % 10))

\* str(result), as print(result) writes it
StrValue(val) == IF val.type = "NoneType" THEN <<"N", "o", "n", "e">>
                 ELSE Digits(val.v)

\* the classes of failure the platform client raises
LookupKinds == {"NotFoundError", "ConnectionError"}
RemoteKinds == {"NotFoundError", "ConnectionError", "ValueError"}

\* an exception object: its class and the args it was constructed with
ExceptionsOf(kinds) ==
    {[kind |-> k, args |-> a] : k \in kinds,
                                a \in {<<>>} \cup {<<m>> : m \in Messages}}

\* str(e): empty without args, the message with one
StrExc(exc) == IF Len(exc.args) = 0 THEN <<>> ELSE exc.args[1]

\* the classes deriving from Exception
ExceptionSubclasses == {"NotFoundError", "ConnectionError", "ValueError"}

ExceptMatchesNarrow(exc) == exc.kind = "NotFoundError"

\* except Exception as e: does the clause match the exception in flight
ExceptMatches(exc) == exc.kind \in ExceptionSubclasses

\* print(x): one more line on standard output
WriteLine(out, line) == Append(out, line)

(* ---------------- initial state --------------------------------------- *)

Init ==
    /\ pc = "L5"
    /\ app = <<>>
    /\ f = <<>>
    /\ result = <<>>
    /\ raised = <<>>
    /\ e = <<>>
    /\ stdout = <<>>
    /\ exitCode = <<>>
    /\ lookupLog = <<>>
    /\ lookupOutcome = "none"
    /\ remoteLog = <<>>
    /\ remoteOutcome = "none"

(* ---------------- the script ------------------------------------------ *)

\* app = modal.App("legal-search-api")
ModuleInit ==
    /\ pc = "L5"
    /\ app' = <<AppName>>
    /\ pc' = "L24"
    /\ UNCHANGED <<f, result, raised, e, stdout, exitCode,
                   lookupLog, lookupOutcome, remoteLog, remoteOutcome>>

\* if __name__ == "__main__": main()
CallMain ==
    /\ pc = "L24"
    /\ pc' = "L8"
    /\ UNCHANGED <<app, f, result, raised, e, stdout, exitCode,
                   lookupLog, lookupOutcome, remoteLog, remoteOutcome>>

\* print("Invoking generate_sparse_embedding_internal remotely...")
PrintInvoking ==
    /\ pc = "L8"
    /\ stdout' = WriteLine(stdout, InvokingLine)
    /\ pc' = "L16"
    /\ UNCHANGED <<app, f, result, raised, e, exitCode,
                   lookupLog, lookupOutcome, remoteLog, remoteOutcome>>

LookupCallSwapped ==
    /\ pc = "L16"
    /\ lookupLog' = Append(lookupLog, [app |-> FunctionName, fn |-> AppName])
    /\ lookupOutcome' = "pending"
    /\ pc' = "L16_wait"
    /\ UNCHANGED <<app, f, result, raised, e, stdout, exitCode,
                   remoteLog, remoteOutcome>>

\* modal.Function.from_name("legal-search-api", "generate_sparse_...") is entered
LookupCall ==
    /\ pc = "L16"
    /\ lookupLog' = Append(lookupLog, [app |-> AppName, fn |-> FunctionName])
    /\ lookupOutcome' = "pending"
    /\ pc' = "L16_wait"
    /\ UNCHANGED <<app, f, result, raised, e, stdout, exitCode,
                   remoteLog, remoteOutcome>>

\* from_name returns a handle for the names it was given; f = ...
LookupReturns ==
    /\ pc = "L16_wait"
    /\ lookupOutcome = "pending"
    /\ f' = <<lookupLog[Len(lookupLog)]>>
    /\ lookupOutcome' = "returned"
    /\ pc' = "L17"
    /\ UNCHANGED <<app, result, raised, e, stdout, exitCode,
                   lookupLog, remoteLog, remoteOutcome>>

\* from_name raises: control leaves the try body for the except clause
LookupRaises ==
    /\ pc = "L16_wait"
    /\ lookupOutcome = "pending"
    /\ \E exc \in ExceptionsOf(LookupKinds) : raised' = <<exc>>
    /\ lookupOutcome' = "raised"
    /\ pc' = "L20"
    /\ UNCHANGED <<app, f, result, e, stdout, exitCode,
                   lookupLog, remoteLog, remoteOutcome>>

RemoteCallTwice ==
    /\ pc = "L17"
    /\ remoteLog' = remoteLog \o <<[f |-> f[1], arg |-> TestQuery],
                                   [f |-> f[1], arg |-> TestQuery]>>
    /\ remoteOutcome' = "pending"
    /\ pc' = "L17_wait"
    /\ UNCHANGED <<app, f, result, raised, e, stdout, exitCode,
                   lookupLog, lookupOutcome>>

RemoteCallAfterMarker ==
    /\ pc = "L17"
    /\ stdout' = WriteLine(stdout, SuccessLine)
    /\ remoteLog' = Append(remoteLog, [f |-> f[1], arg |-> TestQuery])
    /\ remoteOutcome' = "pending"
    /\ pc' = "L17_wait"
    /\ UNCHANGED <<app, f, result, raised, e, exitCode,
                   lookupLog, lookupOutcome>>

\* f.remote("test query") is entered: the script now waits for the answer
RemoteCall ==
    /\ pc = "L17"
    /\ remoteLog' = Append(remoteLog, [f |-> f[1], arg |-> TestQuery])
    /\ remoteOutcome' = "pending"
    /\ pc' = "L17_wait"
    /\ UNCHANGED <<app, f, result, raised, e, stdout, exitCode,
                   lookupLog, lookupOutcome>>

\* the remote call returns a value; result = ...
RemoteReturns ==
    /\ pc = "L17_wait"
    /\ remoteOutcome = "pending"
    /\ \E val \in Values : result' = <<val>>
    /\ remoteOutcome' = "returned"
    /\ pc' = "L18"
    /\ UNCHANGED <<app, f, raised, e, stdout, exitCode,
                   lookupLog, lookupOutcome, remoteLog>>

\* the remote call raises: control leaves the try body for the except clause
RemoteRaises ==
    /\ pc = "L17_wait"
    /\ remoteOutcome = "pending"
    /\ \E exc \in ExceptionsOf(RemoteKinds) : raised' = <<exc>>
    /\ remoteOutcome' = "raised"
    /\ pc' = "L20"
    /\ UNCHANGED <<app, f, result, e, stdout, exitCode,
                   lookupLog, lookupOutcome, remoteLog>>

PrintSuccessOmitted ==
    /\ pc = "L18"
    /\ pc' = "L19"
    /\ UNCHANGED <<app, f, result, raised, e, stdout, exitCode,
                   lookupLog, lookupOutcome, remoteLog, remoteOutcome>>

\* print("Success!")
PrintSuccess ==
    /\ pc = "L18"
    /\ stdout' = WriteLine(stdout, SuccessLine)
    /\ pc' = "L19"
    /\ UNCHANGED <<app, f, result, raised, e, exitCode,
                   lookupLog, lookupOutcome, remoteLog, remoteOutcome>>

\* print(result)
PrintResult ==
    /\ pc = "L19"
    /\ stdout' = WriteLine(stdout, StrValue(result[1]))
    /\ pc' = "return"
    /\ UNCHANGED <<app, f, result, raised, e, exitCode,
                   lookupLog, lookupOutcome, remoteLog, remoteOutcome>>

MainReturnExitOne ==
    /\ pc = "return"
    /\ exitCode' = <<1>>
    /\ pc' = "exited"
    /\ UNCHANGED <<app, f, result, raised, e, stdout,
                   lookupLog, lookupOutcome, remoteLog, remoteOutcome>>

\* main() returns and the module body ends: the interpreter exits with 0
MainReturn ==
    /\ pc = "return"
    /\ exitCode' = <<0>>
    /\ pc' = "exited"
    /\ UNCHANGED <<app, f, result, raised, e, stdout,
                   lookupLog, lookupOutcome, remoteLog, remoteOutcome>>

ExceptRetry ==
    /\ pc = "L20"
    /\ ExceptMatches(raised[1])
    /\ e' = <<raised[1]>>
    /\ pc' = IF Len(lookupLog) < 2 THEN "L16" ELSE "L21"
    /\ UNCHANGED <<app, f, result, raised, stdout, exitCode,
                   lookupLog, lookupOutcome, remoteLog, remoteOutcome>>

\* except Exception as e: the clause matches and binds e
Except ==
    /\ pc = "L20"
    /\ ExceptMatches(raised[1])
    /\ e' = <<raised[1]>>
    /\ pc' = "L21"
    /\ UNCHANGED <<app, f, result, raised, stdout, exitCode,
                   lookupLog, lookupOutcome, remoteLog, remoteOutcome>>

PrintErrorNoFormat ==
    /\ pc = "L21"
    /\ stdout' = WriteLine(stdout, <<ErrorPrefix, "{", "e", "}">>)
    /\ pc' = "L22"
    /\ UNCHANGED <<app, f, result, raised, e, exitCode,
                   lookupLog, lookupOutcome, remoteLog, remoteOutcome>>

\* print(f"Error: {e}")
PrintError ==
    /\ pc = "L21"
    /\ stdout' = WriteLine(stdout, <<ErrorPrefix>> \o StrExc(e[1]))
    /\ pc' = "L22"
    /\ UNCHANGED <<app, f, result, raised, e, exitCode,
                   lookupLog, lookupOutcome, remoteLog, remoteOutcome>>

SysExitZero ==
    /\ pc = "L22"
    /\ exitCode' = <<0>>
    /\ pc' = "exited"
    /\ UNCHANGED <<app, f, result, raised, e, stdout,
                   lookupLog, lookupOutcome, remoteLog, remoteOutcome>>

SysExitBlocks ==
    /\ pc = "L22"
    /\ UNCHANGED vars

\* sys.exit(1): SystemExit leaves main() and the interpreter exits with 1
SysExit ==
    /\ pc = "L22"
    /\ exitCode' = <<1>>
    /\ pc' = "exited"
    /\ UNCHANGED <<app, f, result, raised, e, stdout,
                   lookupLog, lookupOutcome, remoteLog, remoteOutcome>>

Next ==
    \/ ModuleInit
    \/ CallMain
    \/ PrintInvoking
    \/ LookupCall
    \/ LookupReturns
    \/ LookupRaises
    \/ RemoteCall
    \/ RemoteReturns
    \/ RemoteRaises
    \/ PrintSuccess
    \/ PrintResult
    \/ MainReturn
    \/ Except
    \/ PrintError
    \/ SysExit

Spec == Init /\ [][Next]_vars

\* every step of the script is taken once enabled, and the platform
\* answers a pending lookup or call
LiveSpec == Init /\ [][Next]_vars /\ WF_vars(Next)

(* ---------------- observations used by the properties ------------------ *)

Exited == pc = "exited"

\* the text d occurs in the line, fragment by fragment
Contains(line, d) ==
    \E i \in 0..(Len(line) - Len(d)) :
        \A j \in 1..Len(d) : line[i + j] = d[j]

IsErrorLine(line) == Len(line) >= 1 /\ line[1] = ErrorPrefix

MarkerPositions(out) == {i \in 1..Len(out) : out[i] = SuccessLine}
ErrorPositions(out) == {i \in 1..Len(out) : IsErrorLine(out[i])}

MarkerShown == MarkerPositions(stdout) # {}
ErrorShown == ErrorPositions(stdout) # {}

\* the returned value is printed on the line right after the success marker
MarkerThenValue ==
    \E i \in MarkerPositions(stdout) :
        /\ i < Len(stdout)
        /\ result # <<>>
        /\ stdout[i + 1] = StrValue(result[1])

\* an error line carrying the description of the failure that was raised
ErrorWithDescription ==
    \E i \in ErrorPositions(stdout) :
        /\ raised # <<>>
        /\ Contains(stdout[i], StrExc(raised[1]))

SuccessOutcome == MarkerThenValue /\ exitCode = <<0>>
FailureOutcome == ErrorShown /\ exitCode = <<1>>

AtHandler == pc \in {"L20", "L21", "L22"}

(* ---------------- properties ------------------------------------------- *)

\* C1: when the lookup succeeded and the remote call returned a value, the
\* handler with sys.exit(1) is never entered, and the finished run has
\* printed "Success!", then the returned value, and has exit code 0.
C1_SuccessPath ==
    remoteOutcome = "returned" =>
        /\ ~AtHandler
        /\ exitCode # <<1>>
        /\ Exited => (MarkerThenValue /\ exitCode = <<0>>)

C1_Witness ==
    /\ Exited
    /\ remoteOutcome = "returned"
    /\ result = <<[type |-> "int", v |-> 10]>>
    /\ stdout = <<InvokingLine, SuccessLine, <<"1", "0">> >>

\* C2: when the lookup raised, the finished run has printed an error
\* message containing the description of that failure, and has exit status 1.
C2_LookupFailure ==
    (Exited /\ lookupOutcome = "raised") =>
        (ErrorWithDescription /\ exitCode = <<1>>)

C2_Witness ==
    /\ Exited
    /\ lookupOutcome = "raised"
    /\ raised = <<[kind |-> "NotFoundError", args |-> << <<"x", "y">> >>]>>
    /\ stdout[Len(stdout)] = <<ErrorPrefix, "x", "y">>

\* C3: when the lookup succeeded and the remote call raised, the finished
\* run has printed an error message and has exit status 1.
C3_RemoteFailure ==
    (Exited /\ lookupOutcome = "returned" /\ remoteOutcome = "raised") =>
        (ErrorShown /\ exitCode = <<1>>)

C3_Witness ==
    /\ Exited
    /\ lookupOutcome = "returned"
    /\ remoteOutcome = "raised"
    /\ raised # <<>> /\ raised[1].kind = "ValueError"
    /\ ErrorShown

\* C4 as stated: every finished run has issued exactly one remote call,
\* whatever the outcome of the lookup, with the argument "test query".
C4_ExactlyOneCall ==
    Exited =>
        /\ Len(remoteLog) = 1
        /\ \A i \in 1..Len(remoteLog) : remoteLog[i].arg = TestQuery

\* C4 amended: a finished run has issued exactly one remote call when the
\* lookup returned and none when the lookup raised; never more than one
\* call is issued, and every issued call has the argument "test query".
C4_OneCallIffLookupReturned ==
    /\ Len(remoteLog) <= 1
    /\ \A i \in 1..Len(remoteLog) : remoteLog[i].arg = TestQuery
    /\ Exited =>
        /\ lookupOutcome \in {"returned", "raised"}
        /\ lookupOutcome = "returned" => Len(remoteLog) = 1
        /\ lookupOutcome = "raised" => Len(remoteLog) = 0

C4_Witness ==
    /\ Exited
    /\ lookupOutcome = "returned"
    /\ remoteLog = <<[f |-> [app |-> AppName, fn |-> FunctionName],
                      arg |-> TestQuery]>>

\* C5: a finished run shows exactly one of the two outcomes: success
\* (marker and returned value printed, exit code 0) or failure (error
\* message printed, exit status 1); never both the marker and the error
\* message, never neither.
C5_TwoOutcomes ==
    Exited =>
        /\ SuccessOutcome # FailureOutcome
        /\ ~(MarkerShown /\ ErrorShown)
        /\ MarkerShown \/ ErrorShown

C5_Witness ==
    /\ Exited
    /\ FailureOutcome
    /\ ~MarkerShown
    /\ remoteOutcome = "raised"

\* C6: a failure raised by the lookup or by the call is matched by the
\* except clause whatever its kind and wherever it was raised, and the
\* finished run has printed the prefix followed by the failure's
\* description as its last line and has a non-zero exit status.
C6_AnyFailureHandled ==
    raised # <<>> =>
        /\ pc \in {"L20", "L21", "L22", "exited"}
        /\ pc = "L20" => ExceptMatches(raised[1])
        /\ pc \in {"L21", "L22", "exited"} => e = raised
        /\ Exited =>
            /\ stdout[Len(stdout)] = <<ErrorPrefix>> \o StrExc(raised[1])
            /\ exitCode # <<>> /\ exitCode[1] # 0

C6_Witness ==
    /\ Exited
    /\ remoteOutcome = "raised"
    /\ raised = <<[kind |-> "ConnectionError", args |-> <<>>]>>
    /\ exitCode = <<1>>

\* C7: the lookup is attempted at most once and the remote call at most
\* once, and once either has raised no further lookup or call is issued.
C7_NoRetry ==
    /\ [](Len(lookupLog) <= 1 /\ Len(remoteLog) <= 1)
    /\ [][raised # <<>> => (lookupLog' = lookupLog /\ remoteLog' = remoteLog)]_vars

C7_Witness ==
    /\ Exited
    /\ lookupOutcome = "raised"
    /\ Len(lookupLog) = 1
    /\ Len(remoteLog) = 0

\* C8: the lookup is made with the names "legal-search-api" and
\* "generate_sparse_embedding_internal"; a remote call is issued only after
\* the lookup returned, on the handle it returned, with the one argument
\* "test query"; when the lookup raised, no remote call is issued.
C8_CallAfterLookup ==
    /\ \A i \in 1..Len(lookupLog) :
           lookupLog[i] = [app |-> "legal-search-api",
                           fn |-> "generate_sparse_embedding_internal"]
    /\ \A i \in 1..Len(remoteLog) :
           /\ lookupOutcome = "returned"
           /\ f = <<[app |-> "legal-search-api",
                     fn |-> "generate_sparse_embedding_internal"]>>
           /\ remoteLog[i] = [f |-> f[1], arg |-> "test query"]
    /\ lookupOutcome = "raised" => remoteLog = <<>>

C8_Witness ==
    /\ pc = "L17_wait"
    /\ lookupOutcome = "returned"
    /\ Len(remoteLog) = 1

\* C9: the success marker is on the output only when the remote call has
\* returned; it is never there in a run where the lookup or the call
\* raised, and no step prints it once the error message has been printed.
C9_MarkerOnlyAfterReturn ==
    /\ [](MarkerShown => remoteOutcome = "returned")
    /\ [](raised # <<>> => ~MarkerShown)
    /\ [][ErrorShown => MarkerPositions(stdout') = MarkerPositions(stdout)]_vars

C9_Witness ==
    /\ pc = "L19"
    /\ MarkerShown
    /\ remoteOutcome = "returned"
    /\ raised = <<>>

\* C10: when every pending lookup and call is answered and every enabled
\* step of the script is taken, the run eventually terminates with exit
\* status 0 or 1.
C10_Terminates == <>(Exited /\ exitCode \in {<<0>>, <<1>>})

C10_Witness ==
    /\ Exited
    /\ exitCode = <<0>>
    /\ lookupOutcome = "returned"
    /\ remoteOutcome = "returned"

====
